---- MODULE Spec2Model ----
(***************************************************************************)
(* A model of the campaign launcher.  The repository holds two variants:   *)
(*   - the in-memory variant (src/python_campaign_launcher): a FastAPI app *)
(*     that keeps campaigns in the dict campaigns_db and hands work to     *)
(*     Celery tasks;                                                       *)
(*   - the persisted variant (src/python-campaign-launcher): a FastAPI app *)
(*     whose CampaignManager keeps rows in a relational store and runs     *)
(*     process_campaign as a background task.                              *)
(* Each variant has its own specification over its own variables; the      *)
(* variables of the other variant stay at their initial value.             *)
(***************************************************************************)
EXTENDS Integers, Sequences, FiniteSets, TLC

VARIABLES
    config_file,     \* the YAML file CampaignTemplateLoader reads
    settings,        \* in-memory variant: which optional settings are set
    broker_up,       \* in-memory variant: whether the Celery broker answers
    worker_pool,     \* in-memory variant: the number of worker processes of the pool
    campaigns_db,    \* in-memory variant: main.campaigns_db
    celery_tasks,    \* in-memory variant: the Celery result backend and the tasks' positions
    response,        \* in-memory variant: the last HTTP response
    script_call,     \* the last call of GeminiContentGenerator.generate_script
    publish_call,    \* in-memory variant: the last run of the task publish_to_platforms
    video_call,      \* in-memory variant: the last call of VideoGenerator.generate_video
    video_tasks,     \* persisted variant: table video_tasks (VideoTaskDB) and the jobs writing it
    clients,         \* persisted variant: platforms whose API client is configured
    campaign_rows,   \* persisted variant: table campaigns (CampaignDB)
    runs,            \* persisted variant: process_campaign background tasks
    engagement_rows, \* persisted variant: table engagement_tasks (EngagementTaskDB)
    engagement_run,  \* persisted variant: the run of process_engagement_queue in flight
    now,             \* persisted variant: datetime.utcnow(), in days
    calls,           \* persisted variant: calls made to the platform clients and the engagement API
    db_response      \* persisted variant: the last HTTP response

vars == <<config_file, settings, broker_up, worker_pool, campaigns_db, celery_tasks, response,
          script_call, publish_call, video_call, video_tasks, clients, campaign_rows, runs, engagement_rows,
          engagement_run, now, calls, db_response>>

mem_vars == <<settings, broker_up, worker_pool, campaigns_db, celery_tasks, response>>
db_vars == <<clients, campaign_rows, runs, engagement_rows, engagement_run, now,
             calls, db_response>>
in_memory_vars ==
    <<config_file, settings, broker_up, worker_pool, campaigns_db, celery_tasks, response,
      script_call, publish_call, video_call>>
other_vars == <<config_file, settings, broker_up, worker_pool, campaigns_db, celery_tasks,
                response, script_call, publish_call, video_call, video_tasks>>

----------------------------------------------------------------------------
(* Bounds *)

MaxStreams == 2
MaxCampaigns == 1
MaxRows == 2
MaxTasks == 2
MaxRuns == 2
MaxVideoTasks == 2
MaxEngagementTasks == 3
MaxNow == 2
ClockStep == 31

NoId == 0
Null == "null"

Min(S) == CHOOSE x \in S : \A y \in S : x <= y

----------------------------------------------------------------------------
(* Template catalog: src/python_campaign_launcher/src/core/templates.py *)

Template(key, style_primary, keywords) ==
    [key |-> key, style_primary |-> style_primary, keywords |-> keywords]

NoTemplate == Template(Null, Null, <<>>)

\* _get_default_templates: the built-in set (keywords transliterated)
get_default_templates ==
    << Template("mnp", "serious",
                <<"mnp", "norikae", "sumaho", "tanmatsu_waribiki", "point_kangen">>),
       Template("anime", "kawaii", <<"anime", "seiyuu", "eigaka", "collab">>),
       Template("tech", "tech",
                <<"happyou", "hatsubai", "hikaku", "seinou", "review", "shinseihin">>) >>

\* The streams a well-formed configuration file may list.
StreamChoices ==
    { Template("tech", "tech", <<"happyou", "hatsubai", "hikaku", "seinou">>),
      Template("tech", "fun", <<>>),
      Template("custom", "fun", <<"sale">>),
      Template("custom", "serious", <<"sale", "coupon">>) }

SeqsUpTo(S, n) == UNION { [1..k -> S] : k \in 0..n }

\* The states of the configuration file: absent, unreadable as the expected
\* structure (YAML error, no mapping at top level, a stream without a field),
\* or well formed with its list of streams.
ConfigFiles ==
    { [state |-> "missing", streams |-> <<>>],
      [state |-> "malformed", streams |-> <<>>] }
    \cup { [state |-> "loaded", streams |-> s] : s \in SeqsUpTo(StreamChoices, MaxStreams) }

load_templates_no_fallback(file) ==
    IF file.state = "missing" THEN get_default_templates ELSE file.streams

load_templates(file) ==
    IF file.state = "loaded"
    THEN file.streams              \* one CampaignTemplate per stream, in order
    ELSE get_default_templates     \* FileNotFoundError, or any other Exception

\* get_template_by_key: the first template with the key, else ValueError
get_template_by_key(file, key) ==
    LET templates == load_templates(file)
        hits == { i \in DOMAIN templates : templates[i].key = key }
    IN  IF hits = {}
        THEN [raised |-> "ValueError", detail |-> key, template |-> NoTemplate]
        ELSE [raised |-> Null, detail |-> Null, template |-> templates[Min(hits)]]

RequestKeys == {"mnp", "anime", "tech", "custom", "nonexistent"}

----------------------------------------------------------------------------
(* In-memory variant, HTTP layer: src/python_campaign_launcher/src/main.py *)

CampaignIds == 1..MaxCampaigns
TaskIds == 1..MaxTasks

Resp(endpoint, code, campaign_id, task_id, status, detail, template) ==
    [endpoint |-> endpoint, code |-> code, campaign_id |-> campaign_id,
     task_id |-> task_id, status |-> status, detail |-> detail,
     template |-> template, result |-> [video_url |-> Null, script_fields |-> 0]]

NoResponse == Resp(Null, 0, NoId, NoId, Null, Null, NoTemplate)

\* GET /templates/{template_key}
get_template(template_key) ==
    LET r == get_template_by_key(config_file, template_key)
    IN  /\ response' = IF r.raised = "ValueError"
                       THEN Resp("get_template", 404, NoId, NoId, Null, r.detail, NoTemplate)
                       ELSE Resp("get_template", 200, NoId, NoId, Null, Null, r.template)
        /\ UNCHANGED <<config_file, settings, broker_up, worker_pool, campaigns_db, celery_tasks,
                       script_call, publish_call, video_call, video_tasks, db_vars>>

----------------------------------------------------------------------------
(* In-memory variant: the Celery tasks of src/tasks/campaign_tasks.py as the *)
(* result backend shows them (state, info) and the position of each task.  *)

\* A value no task has produced; a coroutine object is what a call of an
\* "async def" returns when it is not awaited.
\* script_fields: how many of hook, bullets, twist, cta, hashtags a result's
\* script has populated.
NoValue == [kind |-> "none", video_url |-> Null, script_fields |-> 0]
Coroutine == [kind |-> "coroutine", video_url |-> Null, script_fields |-> 0]
Dict(video_url, script_fields) ==
    [kind |-> "dict", video_url |-> video_url, script_fields |-> script_fields]

\* x.get(...) works on a dict and raises AttributeError on a coroutine object
HasGet(x) == x.kind = "dict"

Task(name, state, info, progress, error, result, pc, campaign_id, template_key, child) ==
    [name |-> name, state |-> state, info |-> info, progress |-> progress,
     error |-> error, result |-> result, pc |-> pc, campaign_id |-> campaign_id,
     template_key |-> template_key, child |-> child]

NoTask == Task(Null, "PENDING", "none", 0, Null, NoValue, "unused", NoId, Null, NoId)

FreshTask == Min({ t \in TaskIds : celery_tasks[t].pc = "unused" })
HasFreshTask == \E t \in TaskIds : celery_tasks[t].pc = "unused"

Queued_workflow(name, campaign_id, template_key) ==
    [name |-> "execute_campaign_workflow", state |-> "PENDING", info |-> "none",
     progress |-> 0, error |-> Null,
     result |-> [kind |-> "none", video_url |-> Null, script_fields |-> 0],
     pc |-> "queued", campaign_id |-> campaign_id, template_key |-> template_key,
     child |-> 0]

\* task.delay(...): the message is queued and the task id returned; the
\* backend reports PENDING for it until a worker starts it
Queued(name, campaign_id, template_key) ==
    Task(name, "PENDING", "none", 0, Null, NoValue, "queued", campaign_id, template_key, NoId)

\* self.update_state(state='PROGRESS', meta={'step': ..., 'progress': p})
Progress(task, p, pc) ==
    [task EXCEPT !.state = "PROGRESS", !.info = "meta", !.progress = p, !.pc = pc]

\* except Exception as exc: self.update_state(state='FAILURE', meta={..., 'error': str(exc)})
\* the raise that follows is the step Reraise
FailureMeta(task, exc) ==
    [task EXCEPT !.state = "FAILURE", !.info = "meta", !.error = exc, !.pc = "raising"]

----------------------------------------------------------------------------
(* In-memory variant, HTTP handlers of src/main.py *)

Campaign(stored, status, template_key, schedule, platforms, published_urls, error_message) ==
    [stored |-> stored, status |-> status, template_key |-> template_key,
     schedule |-> schedule, platforms |-> platforms,
     published_urls |-> published_urls, error_message |-> error_message]

NoCampaign == Campaign("never", Null, Null, Null, <<>>, {}, Null)

Stored(campaign_id) == campaigns_db[campaign_id].stored = "stored"

\* uuid.uuid4(): an id no campaign has had
FreshCampaign == Min({ c \in CampaignIds : campaigns_db[c].stored = "never" })
HasFreshCampaign == \E c \in CampaignIds : campaigns_db[c].stored = "never"

\* request.schedule: None, the empty string, or a cron expression
Schedules == {Null, "", "0 9 * * *"}
CreateTemplateKeys == {"tech", "custom", "nonexistent"}
CreatePlatforms == { <<"tiktok">> }

\* "if request.schedule:" the truth value of an Optional[str]
Truthy_not_none(schedule) == schedule # Null

Truthy(schedule) == schedule # Null /\ schedule # ""

\* The status create_campaign stores once the request is accepted
status_after_create_swapped(schedule) ==
    IF Truthy(schedule) THEN "completed" ELSE "processing"

status_after_create(schedule) ==
    IF Truthy(schedule) THEN "scheduled" ELSE "processing"

\* POST /campaigns
create_campaign(template_key, platforms, schedule) ==
    LET found == get_template_by_key(config_file, template_key)
        campaign_id == FreshCampaign
        campaign == Campaign("stored", "pending", template_key, schedule, platforms, {}, Null)
    IN  /\ HasFreshCampaign
        /\ IF found.raised = "ValueError"
           THEN \* except ValueError: HTTP 400
                /\ response' = Resp("create_campaign", 400, NoId, NoId, Null, found.detail, NoTemplate)
                /\ UNCHANGED <<campaigns_db, celery_tasks>>
           ELSE IF Truthy(schedule)
           THEN /\ campaigns_db' = [campaigns_db EXCEPT ![campaign_id] =
                                       [campaign EXCEPT !.status = status_after_create(schedule)]]
                /\ response' = Resp("create_campaign", 200, campaign_id, NoId,
                                    status_after_create(schedule), Null, NoTemplate)
                /\ UNCHANGED celery_tasks
           ELSE IF ~broker_up
           THEN \* execute_campaign_workflow.delay raises: the campaign stored at
                \* line 166 stays pending, except Exception: HTTP 500
                /\ campaigns_db' = [campaigns_db EXCEPT ![campaign_id] = campaign]
                /\ response' = Resp("create_campaign", 500, NoId, NoId, Null, "broker", NoTemplate)
                /\ UNCHANGED celery_tasks
           ELSE /\ HasFreshTask
                /\ celery_tasks' = [celery_tasks EXCEPT ![FreshTask] =
                                       Queued("execute_campaign_workflow", campaign_id, template_key)]
                /\ campaigns_db' = [campaigns_db EXCEPT ![campaign_id] =
                                       [campaign EXCEPT !.status = status_after_create(schedule)]]
                /\ response' = Resp("create_campaign", 200, campaign_id, FreshTask,
                                    status_after_create(schedule), Null, NoTemplate)
        /\ UNCHANGED <<config_file, settings, broker_up, worker_pool, script_call, publish_call, video_call, video_tasks, db_vars>>

\* GET /campaigns/{campaign_id}
get_campaign(campaign_id) ==
    /\ response' = IF ~Stored(campaign_id)
                   THEN Resp("get_campaign", 404, campaign_id, NoId, Null, "Campaign not found", NoTemplate)
                   ELSE Resp("get_campaign", 200, campaign_id, NoId,
                             campaigns_db[campaign_id].status, Null, NoTemplate)
    /\ UNCHANGED <<config_file, settings, broker_up, worker_pool, campaigns_db, celery_tasks,
                   script_call, publish_call, video_call, video_tasks, db_vars>>

\* DELETE /campaigns/{campaign_id}
delete_campaign(campaign_id) ==
    /\ IF ~Stored(campaign_id)
       THEN /\ response' = Resp("delete_campaign", 404, campaign_id, NoId, Null, "Campaign not found", NoTemplate)
            /\ UNCHANGED campaigns_db
       ELSE /\ campaigns_db' = [campaigns_db EXCEPT ![campaign_id] =
                                   [NoCampaign EXCEPT !.stored = "deleted"]]
            /\ response' = Resp("delete_campaign", 200, campaign_id, NoId, Null, "Campaign deleted", NoTemplate)
    /\ UNCHANGED <<config_file, settings, broker_up, worker_pool, celery_tasks, script_call, publish_call, video_call, video_tasks, db_vars>>

\* POST /campaigns/{campaign_id}/generate
regenerate_campaign_content(campaign_id) ==
    /\ IF ~Stored(campaign_id)
       THEN /\ response' = Resp("regenerate", 404, campaign_id, NoId, Null, "Campaign not found", NoTemplate)
            /\ UNCHANGED <<campaigns_db, celery_tasks>>
       ELSE IF ~broker_up
       THEN \* generate_campaign_content.delay raises; the handler has no
            \* try: the framework answers HTTP 500
            /\ response' = Resp("regenerate", 500, campaign_id, NoId, Null, "broker", NoTemplate)
            /\ UNCHANGED <<campaigns_db, celery_tasks>>
       ELSE /\ HasFreshTask
            /\ celery_tasks' = [celery_tasks EXCEPT ![FreshTask] =
                                   Queued("generate_campaign_content", campaign_id,
                                          campaigns_db[campaign_id].template_key)]
            /\ campaigns_db' = [campaigns_db EXCEPT ![campaign_id].status = "processing"]
            /\ response' = Resp("regenerate", 200, campaign_id, FreshTask, "processing", Null, NoTemplate)
    /\ UNCHANGED <<config_file, settings, broker_up, worker_pool, script_call, publish_call, video_call, video_tasks, db_vars>>

\* GET /tasks/{task_id}: celery_app.AsyncResult(task_id).state and .info.
\* An id the backend does not know reads as PENDING.  In the else branch
\* task.info.get(...) is evaluated: info is a dict for STARTED (pid, hostname)
\* and for a FAILURE written by update_state, and the exception instance for a
\* FAILURE the worker recorded, on which .get raises AttributeError (HTTP 500).
TaskStatusResponse(task_id) ==
    LET task == celery_tasks[task_id]
    IN  CASE task.state = "PENDING" ->
               Resp("get_task_status", 200, NoId, task_id, "pending", Null, NoTemplate)
          [] task.state = "PROGRESS" ->
               Resp("get_task_status", 200, NoId, task_id, "processing", Null, NoTemplate)
          [] task.state = "SUCCESS" ->
               [Resp("get_task_status", 200, NoId, task_id, "completed", Null, NoTemplate)
                   EXCEPT !.result = [video_url |-> task.result.video_url,
                                      script_fields |-> task.result.script_fields]]
          [] OTHER ->
               IF task.info = "exception"
               THEN Resp("get_task_status", 500, NoId, task_id, Null, "AttributeError", NoTemplate)
               ELSE Resp("get_task_status", 200, NoId, task_id, "failed", task.error, NoTemplate)

get_task_status(task_id) ==
    /\ response' = TaskStatusResponse(task_id)
    /\ UNCHANGED <<config_file, settings, broker_up, worker_pool, campaigns_db, celery_tasks,
                   script_call, publish_call, video_call, video_tasks, db_vars>>

----------------------------------------------------------------------------
(* In-memory variant: the workers running the tasks of campaign_tasks.py *)

\* A worker takes a queued task: task_track_started makes the backend report
\* STARTED, with info = {'pid': ..., 'hostname': ...}
worker_start(t) ==
    /\ celery_tasks[t].pc = "queued"
    /\ celery_tasks' = [celery_tasks EXCEPT ![t] =
                           [@ EXCEPT !.state = "STARTED", !.info = "meta", !.pc = "begin"]]
    /\ UNCHANGED <<config_file, settings, broker_up, worker_pool, campaigns_db, response,
                   script_call, publish_call, video_call, video_tasks, db_vars>>

\* content_generator.generate_script(...) and video_generator.generate_video(script)
\* are "async def" and are called without await: each call returns a coroutine
\* object and runs nothing
generate_script_call == Coroutine
generate_video_call(script) == Coroutine

\* storage.upload_file(path, key): the URL of the uploaded object
upload_file(path) == "s3_url"

\* generate_campaign_content in two steps: up to the last update_state
\* before the upload (progress 10, 30, 60, 80), then the upload and the return
generate_campaign_content(t) ==
    LET task == celery_tasks[t]
        found == get_template_by_key(config_file, task.template_key)
        script == generate_script_call
        video_result == generate_video_call(script)
    IN  /\ task.name = "generate_campaign_content"
        /\ task.pc \in {"begin", "upload"}
        /\ celery_tasks' = [celery_tasks EXCEPT ![t] =
             IF task.pc = "begin"
             THEN IF found.raised = "ValueError"
                  THEN FailureMeta(task, "ValueError")
                  ELSE Progress(task, 80, "upload")
             ELSE IF ~HasGet(video_result)
                  THEN \* video_result.get('video_url'): AttributeError
                       FailureMeta(task, "AttributeError")
                  ELSE \* update_state(state='SUCCESS', ...); return result
                       [task EXCEPT !.state = "SUCCESS", !.info = "result",
                                    !.progress = 100, !.pc = "done",
                                    !.result = Dict(IF video_result.video_url # Null
                                                    THEN upload_file(video_result.video_url)
                                                    ELSE Null,
                                                    script.script_fields)]]
        /\ UNCHANGED <<config_file, settings, broker_up, worker_pool, campaigns_db, response,
                       script_call, publish_call, video_call, video_tasks, db_vars>>

\* execute_campaign_workflow up to content_task.get(): update_state, then
\* generate_campaign_content.delay(campaign_config)
workflow_generate(t) ==
    LET task == celery_tasks[t]
    IN  /\ task.name = "execute_campaign_workflow"
        /\ task.pc = "begin"
        /\ HasFreshTask
        /\ celery_tasks' = [celery_tasks EXCEPT
              ![t] = [Progress(task, 25, "join_content") EXCEPT !.child = FreshTask],
              ![FreshTask] = Queued("generate_campaign_content", task.campaign_id,
                                    task.template_key)]
        /\ UNCHANGED <<config_file, settings, broker_up, worker_pool, campaigns_db, response,
                       script_call, publish_call, video_call, video_tasks, db_vars>>

\* content_task.get() / publish_task.get() inside the running task.  With the
\* sub-task check of the worker pool on, get() raises RuntimeError at once;
\* otherwise it blocks until the sub-task has ended and returns its result or
\* raises its exception.
workflow_join(t, will_block) ==
    LET task == celery_tasks[t]
        child == celery_tasks[task.child]
    IN  /\ task.name = "execute_campaign_workflow"
        /\ task.pc \in {"join_content", "join_publish"}
        /\ will_block \/ child.pc = "done"
        /\ celery_tasks' = [celery_tasks EXCEPT ![t] =
             IF will_block THEN FailureMeta(task, "RuntimeError")
             ELSE IF child.state = "FAILURE" THEN FailureMeta(task, child.error)
             ELSE \* Step 2 and 3, update_state(state='SUCCESS', ...), return
                  [task EXCEPT !.state = "SUCCESS", !.info = "result",
                               !.progress = 100, !.pc = "done",
                               !.result = child.result]]
        /\ UNCHANGED <<config_file, settings, broker_up, worker_pool, campaigns_db, response,
                       script_call, publish_call, video_call, video_tasks, db_vars>>

\* "raise" at the end of the except block: the worker records FAILURE with
\* the exception as the task's result
reraise(t) ==
    /\ celery_tasks[t].pc = "raising"
    /\ celery_tasks' = [celery_tasks EXCEPT ![t] =
                           [@ EXCEPT !.state = "FAILURE", !.info = "exception", !.pc = "done"]]
    /\ UNCHANGED <<config_file, settings, broker_up, worker_pool, campaigns_db, response,
                   script_call, publish_call, video_call, video_tasks, db_vars>>

----------------------------------------------------------------------------
(* In-memory variant: the worker pool.  A worker holds a task from the     *)
(* moment it starts it until the task has returned or raised, the time it  *)
(* spends blocked in get() included.                                       *)

\* The most worker processes a pool is started with (--concurrency)
WorkerConcurrency == 2

\* The tasks a worker of the pool is holding
Busy == { t \in TaskIds : celery_tasks[t].pc \notin {"unused", "queued", "done"} }

\* A free worker of the pool takes a queued task
pool_worker_start(t) ==
    /\ Cardinality(Busy) < worker_pool
    /\ worker_start(t)

\* content_task.get() does not raise and blocks the workflow's worker
workflow_get_blocks(t) ==
    LET task == celery_tasks[t]
    IN  /\ task.name = "execute_campaign_workflow"
        /\ task.pc = "join_content"
        /\ celery_tasks' = [celery_tasks EXCEPT ![t].pc = "waiting"]
        /\ UNCHANGED <<config_file, settings, broker_up, worker_pool, campaigns_db, response,
                       script_call, publish_call, video_call, video_tasks, db_vars>>

\* The blocked get() ends when the sub-task has ended: it raises the
\* sub-task's exception or returns its result
workflow_get_returns(t) ==
    LET task == celery_tasks[t]
        child == celery_tasks[task.child]
    IN  /\ task.name = "execute_campaign_workflow"
        /\ task.pc = "waiting"
        /\ child.pc = "done"
        /\ celery_tasks' = [celery_tasks EXCEPT ![t] =
             IF child.state = "FAILURE" THEN FailureMeta(task, child.error)
             ELSE [task EXCEPT !.state = "SUCCESS", !.info = "result",
                               !.progress = 100, !.pc = "done",
                               !.result = child.result]]
        /\ UNCHANGED <<config_file, settings, broker_up, worker_pool, campaigns_db, response,
                       script_call, publish_call, video_call, video_tasks, db_vars>>

TimeLimited_never(task) == FALSE

\* task_soft_time_limit: a task still running after 25 minutes, which only a
\* task blocked in get() is
TimeLimited(task) == task.pc = "waiting"

\* SoftTimeLimitExceeded is raised inside the task and caught by its
\* "except Exception"
soft_time_limit(t) ==
    LET task == celery_tasks[t]
    IN  /\ TimeLimited(task)
        /\ celery_tasks' = [celery_tasks EXCEPT ![t] =
                               FailureMeta(task, "SoftTimeLimitExceeded")]
        /\ UNCHANGED <<config_file, settings, broker_up, worker_pool, campaigns_db, response,
                       script_call, publish_call, video_call, video_tasks, db_vars>>

\* Task ids the workflows that have not yet queued their sub-task will use
ReservedTasks ==
    { t \in TaskIds : /\ celery_tasks[t].name = "execute_campaign_workflow"
                      /\ celery_tasks[t].pc \in {"queued", "begin"} }

UnusedTasks == { t \in TaskIds : celery_tasks[t].pc = "unused" }

\* POST /campaigns while ids are left for the workflow and its sub-task
pool_create_campaign(template_key, platforms, schedule) ==
    /\ Cardinality(UnusedTasks) >= Cardinality(ReservedTasks) + 2
    /\ create_campaign(template_key, platforms, schedule)

----------------------------------------------------------------------------
(* Script composer: src/python_campaign_launcher/src/services/content_generator.py *)
(* Texts are kept as sequences of their parts: an f-string is the sequence *)
(* of its literal text and its interpolated values.                        *)

Script(hook, bullets, twist, cta, hashtags, style, estimated_duration) ==
    [hook |-> hook, bullets |-> bullets, twist |-> twist, cta |-> cta,
     hashtags |-> hashtags, style |-> style,
     estimated_duration |-> estimated_duration]

NoScript == Script(<<>>, <<>>, <<>>, <<>>, <<>>, Null, 0)

Permutations3 == { p \in [1..3 -> 1..3] : \A i, j \in 1..3 : p[i] = p[j] => i = j }

Take(seq, n) == [i \in 1..(IF Len(seq) < n THEN Len(seq) ELSE n) |-> seq[i]]

\* The draws of the random module in one call: random.choice (three times),
\* random.sample(mock_bullets, 3) and random.randint(20, 35)
Draws == [hook : 1..3, order : Permutations3, twist : 1..3, cta : 1..3,
          duration : {20, 35}]

\* [f"#{keyword}" for keyword in template.keywords[:3]]
mock_hashtags(template) ==
    [i \in DOMAIN Take(template.keywords, 3) |-> <<"#", template.keywords[i]>>]

\* _generate_mock_script; template.keywords[0] raises IndexError on an empty list
generate_mock_script(template, draw) ==
    IF Len(template.keywords) = 0
    THEN [raised |-> "IndexError", script |-> NoScript]
    ELSE LET mock_hooks == << <<"ima wadai no ", template.key, " ni tsuite shitteru?">>,
                              <<"kore wa shiranai to son suru ", template.key, " no hanashi">>,
                              <<"minna! ", template.key, " de taihen na koto ga okiteru!">> >>
             mock_bullets == << <<template.keywords[1], " no saishin jouhou wo check">>,
                                <<"jitsu wa konna merit ga arun desu">>,
                                <<"minna ga shiranai urawaza wo koukai">> >>
             mock_twists == << <<"demo jitsu wa, motto sugoi koto ga arun desu!">>,
                               <<"jissai ni tameshite mitara, yosou wo koeru kekka ga...">>,
                               <<"saigo ni totteoki no jouhou wo oshiemasu">> >>
             mock_ctas == << <<"anata wa dou omou? comment de oshiete!">>,
                             <<"tsuzuki ga ki ni naru hito wa follow shite ne">>,
                             <<"kono jouhou, yaku ni tatta hito wa iine!">> >>
         IN  [raised |-> Null,
              script |-> Script(mock_hooks[draw.hook],
                                [i \in 1..3 |-> mock_bullets[draw.order[i]]],
                                mock_twists[draw.twist],
                                mock_ctas[draw.cta],
                                mock_hashtags(template),
                                template.style_primary,
                                draw.duration)]

\* A line of the backend's answer, stripped, as _parse_script_response reads
\* it: the section markers it contains, the text after its first ':', its
\* '#' tokens, and its bullet text when it starts with 1. 2. 3. - or the dot.
Line(text, marks, after_colon, tags, bullet) ==
    [text |-> text, marks |-> marks, after_colon |-> after_colon, tags |-> tags,
     bullet |-> bullet]

NoText == <<>>

parse_line(script, section, line) ==
    CASE line.text = NoText -> [script |-> script, section |-> section]
      [] "hook" \in line.marks ->
           [script |-> IF line.after_colon # Null
                       THEN [script EXCEPT !.hook = line.after_colon] ELSE script,
            section |-> "hook"]
      [] "bullets" \in line.marks -> [script |-> script, section |-> "bullets"]
      [] "twist" \in line.marks ->
           [script |-> IF line.after_colon # Null
                       THEN [script EXCEPT !.twist = line.after_colon] ELSE script,
            section |-> "twist"]
      [] "cta" \in line.marks ->
           [script |-> IF line.after_colon # Null
                       THEN [script EXCEPT !.cta = line.after_colon] ELSE script,
            section |-> "cta"]
      [] "hashtag" \in line.marks ->
           [script |-> [script EXCEPT !.hashtags = @ \o line.tags],
            section |-> section]
      [] section = "bullets" /\ line.bullet # Null ->
           [script |-> [script EXCEPT !.bullets = Append(@, line.bullet)],
            section |-> section]
      [] section = "hook" /\ script.hook = NoText ->
           [script |-> [script EXCEPT !.hook = line.text], section |-> section]
      [] section = "twist" /\ script.twist = NoText ->
           [script |-> [script EXCEPT !.twist = line.text], section |-> section]
      [] section = "cta" /\ script.cta = NoText ->
           [script |-> [script EXCEPT !.cta = line.text], section |-> section]
      [] OTHER -> [script |-> script, section |-> section]

RECURSIVE parse_lines(_, _, _)
parse_lines(script, section, lines) ==
    IF lines = <<>> THEN script
    ELSE LET r == parse_line(script, section, Head(lines))
         IN  parse_lines(r.script, r.section, Tail(lines))

\* _parse_script_response
parse_script_response(lines, template) ==
    parse_lines(Script(NoText, <<>>, NoText, NoText, <<>>, template.style_primary, 25),
                Null, lines)

\* Answers of the text-generation backend
BackendResponses ==
    { << Line(<<"hook: mite!">>, {"hook"}, <<"mite!">>, <<>>, Null),
         Line(<<"main contents (3 point):">>, {"bullets"}, NoText, <<>>, Null),
         Line(<<"1. hayai">>, {}, Null, <<>>, <<"hayai">>),
         Line(<<"twist">>, {"twist"}, Null, <<>>, Null),
         Line(<<"jitsu wa yasui">>, {}, Null, <<>>, Null),
         Line(<<"#tech #new">>, {"hashtag"}, Null, << <<"#tech">>, <<"#new">> >>, Null) >>,
      << Line(<<"sumimasen, dekimasen">>, {}, Null, <<>>, Null) >> }

Backends == {"unconfigured", "raises", "responds"}

\* generate_script: the mock script when no model is configured or the call
\* of the model raises, else the parsed answer
generate_script(template, backend, answer, draw) ==
    IF backend = "responds"
    THEN [raised |-> Null, script |-> parse_script_response(answer, template)]
    ELSE generate_mock_script(template, draw)

ScriptTemplates ==
    { get_default_templates[i] : i \in DOMAIN get_default_templates } \cup StreamChoices

\* One awaited call of generate_script, on the template and the backend
\* script_call names
generate_script_awaited(answer, draw) ==
    LET r == generate_script(script_call.template, script_call.backend, answer, draw)
    IN  /\ script_call.raised = "pending"
        /\ script_call' = [script_call EXCEPT !.raised = r.raised, !.script = r.script]
        /\ UNCHANGED <<config_file, mem_vars, publish_call, video_call, video_tasks, db_vars>>

----------------------------------------------------------------------------
(* The task publish_to_platforms of the in-memory variant *)

MaxPlatforms == 3

\* PlatformType, and a name that is none of its members
PlatformType == {"tiktok", "instagram", "youtube"}
PlatformNames == PlatformType \cup {"line"}
PlatformLists == SeqsUpTo(PlatformNames, MaxPlatforms)

\* The values results[platform] can hold: a dict with a status, or the
\* coroutine object a call of an async method returns when it is not awaited
PublishDict(status) == [kind |-> "dict", status |-> status]
PublishCoroutine == [kind |-> "coroutine", status |-> Null]

\* What SocialMediaPublisher.publish_to_<platform> returns once awaited; the
\* form of the call under which every stored result is a dict
publish_to_platform_awaited(platform, configured) ==
    IF platform \in configured THEN PublishDict("success") ELSE PublishDict("skipped")

\* publisher.publish_to_<platform>(content_result, video_url) as the task
\* calls it: without await
publish_to_platform(platform, configured) == PublishCoroutine

\* The result the loop stores for one platform
platform_result(platform, video_url, configured) ==
    IF video_url = Null THEN PublishDict("error")
    ELSE IF platform \in PlatformType THEN publish_to_platform(platform, configured)
    ELSE PublishDict("error")

Range(seq) == { seq[i] : i \in DOMAIN seq }

NoPublishCall ==
    [pc |-> "unused", platforms |-> <<>>, video_url |-> Null, state |-> Null,
     raised |-> Null, platform_results |-> <<>>, total_platforms |-> 0,
     successful_publishes |-> 0]

\* One run of publish_to_platforms on the platforms and the content result
\* publish_call names: results is a dict keyed by platform, the count reads
\* r.get('status') of every value, and any exception ends the task in FAILURE
publish_to_platforms ==
    LET platforms == publish_call.platforms
        results == [p \in Range(platforms) |->
                       platform_result(p, publish_call.video_url, settings)]
        raises == \E p \in DOMAIN results : ~HasGet(results[p])
    IN  /\ publish_call.pc = "queued"
        /\ publish_call' =
              IF raises
              THEN [publish_call EXCEPT !.pc = "done", !.state = "FAILURE",
                                        !.raised = "AttributeError"]
              ELSE [publish_call EXCEPT
                       !.pc = "done", !.state = "SUCCESS",
                       !.platform_results = results,
                       !.total_platforms = Len(platforms),
                       !.successful_publishes =
                           Cardinality({p \in DOMAIN results : results[p].status = "success"})]
        /\ UNCHANGED <<config_file, mem_vars, script_call, video_call, video_tasks, db_vars>>

----------------------------------------------------------------------------
(* In-memory variant: src/services/video_generator.py.  What the libraries *)
(* do (gTTS, moviepy, ImageMagick behind TextClip) is the environment of a *)
(* call: each step either works or raises.                                 *)

\* tts: gTTS(...).save; visuals: the clips and write_videofile of
\* _generate_visuals; simple: those of _create_simple_video; captions: those
\* of _add_captions; fallback: those of _generate_fallback_video; images:
\* the background_images argument
RenderEnvs ==
    [tts : BOOLEAN, visuals : BOOLEAN, simple : BOOLEAN, captions : BOOLEAN,
     fallback : BOOLEAN, images : {"none", "readable", "unreadable"}]

Returned(file) == [raised |-> Null, file |-> file]
Raised(exception) == [raised |-> exception, file |-> Null]

\* _generate_audio: the except branch builds AudioFileClip(duration=...), a
\* constructor call without its filename, which raises TypeError
generate_audio(env) ==
    IF env.tts THEN Returned("audio") ELSE Raised("TypeError")

\* _create_simple_video: re-raises what goes wrong
create_simple_video(env) ==
    IF env.simple THEN Returned("simple") ELSE Raised("Exception")

\* _generate_visuals: an image that cannot be loaded is replaced by a colored
\* background; any other failure falls back to _create_simple_video
generate_visuals(env) ==
    IF env.visuals THEN Returned("video") ELSE create_simple_video(env)

add_captions_or_none(env, video_file) ==
    IF env.captions THEN Returned("final") ELSE Returned(Null)

\* _add_captions: returns the video it was given when captioning fails
add_captions(env, video_file) ==
    IF env.captions THEN Returned("final") ELSE Returned(video_file)

VideoResult(raised, video_url, audio_url) ==
    [raised |-> raised, video_url |-> video_url, audio_url |-> audio_url]

\* _generate_fallback_video
generate_fallback_video(env) ==
    IF env.fallback THEN VideoResult(Null, "fallback", Null)
    ELSE VideoResult("Exception", Null, Null)

\* VideoGenerator.generate_video, awaited: audio, visuals, captions; any
\* exception on the way leads to _generate_fallback_video
generate_video(env) ==
    LET audio == generate_audio(env)
        video == generate_visuals(env)
        final == add_captions(env, video.file)
    IN  IF audio.raised # Null \/ video.raised # Null \/ final.raised # Null
        THEN generate_fallback_video(env)
        ELSE VideoResult(Null, final.file, audio.file)

NoVideoCall == [pc |-> "unused", env |-> [tts |-> TRUE, visuals |-> TRUE, simple |-> TRUE,
                                           captions |-> TRUE, fallback |-> TRUE,
                                           images |-> "none"],
                result |-> VideoResult(Null, Null, Null)]

\* One awaited call of generate_video in the environment video_call names
generate_video_awaited ==
    /\ video_call.pc = "called"
    /\ video_call' = [video_call EXCEPT !.pc = "returned",
                                        !.result = generate_video(video_call.env)]
    /\ UNCHANGED <<config_file, mem_vars, script_call, publish_call, video_tasks, db_vars>>

----------------------------------------------------------------------------
(* Persisted variant: src/python-campaign-launcher.  Rows of the tables    *)
(* campaigns and engagement_tasks, the process_campaign background tasks,  *)
(* the HTTP handlers of main.py and the periodic workers.                  *)

RowIds == 1..MaxRows
RunIds == 1..MaxRuns
EngagementIds == 1..MaxEngagementTasks

\* models.CampaignStatus
CampaignStatus == {"draft", "scheduled", "running", "paused", "completed", "failed"}

\* CampaignCreate.config.target_platforms
TargetPlatforms == { <<"tiktok">>, <<>> }

\* settings.tiktok_client_id set or not: setup_api_clients
ClientChoices == SUBSET {"tiktok"}

\* models.SocialPost
SocialPost(platform, scheduled_time, posted, post_id) ==
    [platform |-> platform, scheduled_time |-> scheduled_time, posted |-> posted,
     post_id |-> post_id]

\* A row of table campaigns (database.CampaignDB)
CampaignDB(stored, status, target_platforms, posts, video_urls, updated_at) ==
    [stored |-> stored, status |-> status, target_platforms |-> target_platforms,
     posts |-> posts, video_urls |-> video_urls, updated_at |-> updated_at]

NoRow == CampaignDB(FALSE, Null, <<>>, <<>>, <<>>, 0)

\* A background task running CampaignManager.process_campaign: its position,
\* the campaign it read and its local video_urls
Run(pc, campaign_id, target_platforms, video_urls) ==
    [pc |-> pc, campaign_id |-> campaign_id, target_platforms |-> target_platforms,
     video_urls |-> video_urls]

NoRun == Run("unused", NoId, <<>>, <<>>)

FreshRun == Min({ r \in RunIds : runs[r].pc = "unused" })
HasFreshRun == \E r \in RunIds : runs[r].pc = "unused"

\* uuid.uuid4() of models.Campaign.id: an id no row has
FreshRow == Min({ c \in RowIds : ~campaign_rows[c].stored })
HasFreshRow == \E c \in RowIds : ~campaign_rows[c].stored

\* Calls made to the platform API clients (post_video, post_reel, post_short)
\* and, per engagement task, to SocialPosterService.engage_with_content
NoCalls == [client |-> {}, engage |-> [i \in EngagementIds |-> 0]]

\* CampaignManager.get_campaign: None for an id without a row; Campaign(**data)
\* raises ValidationError for a status outside CampaignStatus
CampaignManager_get_campaign(campaign_id) ==
    LET row == campaign_rows[campaign_id]
    IN  IF ~row.stored THEN [raised |-> Null, found |-> FALSE]
        ELSE IF row.status \notin CampaignStatus
        THEN [raised |-> "ValidationError", found |-> FALSE]
        ELSE [raised |-> Null, found |-> TRUE]

update_campaign_status_unless_paused(rows, campaign_id, status) ==
    IF rows[campaign_id].stored /\ rows[campaign_id].status # "paused"
    THEN [rows EXCEPT ![campaign_id].status = status, ![campaign_id].updated_at = now]
    ELSE rows

\* CampaignManager.update_campaign_status: writes whatever the current status
\* is; nothing when the id has no row
update_campaign_status(rows, campaign_id, status) ==
    IF rows[campaign_id].stored
    THEN [rows EXCEPT ![campaign_id].status = status, ![campaign_id].updated_at = now]
    ELSE rows

\* POST /campaigns of the persisted variant: the row is stored as draft and
\* process_campaign is added as a background task
CampaignManager_create_campaign(target_platforms) ==
    /\ HasFreshRow
    /\ HasFreshRun
    /\ campaign_rows' = [campaign_rows EXCEPT ![FreshRow] =
                            CampaignDB(TRUE, "draft", target_platforms, <<>>, <<>>, now)]
    /\ runs' = [runs EXCEPT ![FreshRun] = Run("queued", FreshRow, <<>>, <<>>)]
    /\ db_response' = Resp("create_campaign", 200, FreshRow, NoId, "draft", Null, NoTemplate)
    /\ UNCHANGED <<other_vars, clients, engagement_rows, engagement_run, now, calls>>

\* GET /campaigns/{campaign_id} of the persisted variant
main_get_campaign(campaign_id) ==
    LET got == CampaignManager_get_campaign(campaign_id)
    IN  /\ db_response' =
              IF got.raised # Null
              THEN Resp("get_campaign", 500, campaign_id, NoId, Null, got.raised, NoTemplate)
              ELSE IF ~got.found
              THEN Resp("get_campaign", 404, campaign_id, NoId, Null, "Campaign not found", NoTemplate)
              ELSE Resp("get_campaign", 200, campaign_id, NoId,
                        campaign_rows[campaign_id].status, Null, NoTemplate)
        /\ UNCHANGED <<other_vars, clients, campaign_rows, runs, engagement_rows,
                       engagement_run, now, calls>>

\* POST /campaigns/{campaign_id}/start
start_campaign(campaign_id) ==
    LET got == CampaignManager_get_campaign(campaign_id)
    IN  /\ IF got.raised # Null
           THEN /\ db_response' = Resp("start_campaign", 500, campaign_id, NoId, Null,
                                       got.raised, NoTemplate)
                /\ UNCHANGED runs
           ELSE IF ~got.found
           THEN /\ db_response' = Resp("start_campaign", 404, campaign_id, NoId, Null,
                                       "Campaign not found", NoTemplate)
                /\ UNCHANGED runs
           ELSE /\ HasFreshRun
                /\ runs' = [runs EXCEPT ![FreshRun] = Run("queued", campaign_id, <<>>, <<>>)]
                /\ db_response' = Resp("start_campaign", 200, campaign_id, NoId, Null,
                                       "Campaign started", NoTemplate)
        /\ UNCHANGED <<other_vars, clients, campaign_rows, engagement_rows,
                       engagement_run, now, calls>>

\* POST /campaigns/{campaign_id}/stop: CampaignManager.stop_campaign is
\* update_campaign_status(campaign_id, PAUSED); the handler looks nothing up
stop_campaign(campaign_id) ==
    /\ campaign_rows' = update_campaign_status(campaign_rows, campaign_id, "paused")
    /\ db_response' = Resp("stop_campaign", 200, campaign_id, NoId, Null,
                           "Campaign stopped", NoTemplate)
    /\ UNCHANGED <<other_vars, clients, runs, engagement_rows, engagement_run, now, calls>>

\* GET /campaigns/{campaign_id}/analytics: AnalyticsService.get_campaign_analytics
\* returns {"error": "Campaign not found"} and the handler returns it
get_campaign_analytics(campaign_id) ==
    /\ db_response' =
          IF ~campaign_rows[campaign_id].stored
          THEN Resp("get_campaign_analytics", 200, campaign_id, NoId, Null,
                    "Campaign not found", NoTemplate)
          ELSE Resp("get_campaign_analytics", 200, campaign_id, NoId,
                    campaign_rows[campaign_id].status, Null, NoTemplate)
    /\ UNCHANGED <<other_vars, clients, campaign_rows, runs, engagement_rows,
                   engagement_run, now, calls>>

----------------------------------------------------------------------------
(* Persisted variant: CampaignManager.process_campaign and the poster      *)

\* The draws of the random module in one call of schedule_post:
\* random.randint(1, 6) hours and the number in the post id, at either end
\* of its range
PostDraws == [hours_offset : {1, 6}, number : {"lowest", "highest"}]

\* _calculate_scheduled_time: utcnow() + timedelta(hours=hours_offset)
calculate_scheduled_time(hours_offset) == [day |-> now, hours |-> hours_offset]

\* SocialPosterService.schedule_post: with a client for the platform the
\* client is called and its post id recorded; without one the else branch
\* records a demo post id; posted is set in every branch
schedule_post(platform, draw) ==
    LET social_post == SocialPost(platform, calculate_scheduled_time(draw.hours_offset),
                                  FALSE, Null)
    IN  IF platform \in clients
        THEN [called |-> TRUE,
              post |-> [social_post EXCEPT !.post_id = <<platform, draw.number>>,
                                           !.posted = TRUE]]
        ELSE [called |-> FALSE,
              post |-> [social_post EXCEPT !.post_id = <<"demo", platform, draw.number>>,
                                           !.posted = TRUE]]

\* VideoGeneratorService.generate_video returns a URL or None and never
\* raises: the list _generate_campaign_videos collects
VideoUrlLists == { <<>>, <<"video_url">> }

\* process_campaign up to the first generate_video: get_campaign, then
\* update_campaign_status(RUNNING); an exception goes to the except branch,
\* which writes FAILED
process_campaign_begin(r) ==
    LET run == runs[r]
        campaign_id == run.campaign_id
        got == CampaignManager_get_campaign(campaign_id)
    IN  /\ run.pc = "queued"
        /\ IF got.raised # Null
           THEN /\ campaign_rows' = update_campaign_status(campaign_rows, campaign_id, "failed")
                /\ runs' = [runs EXCEPT ![r].pc = "done"]
           ELSE IF ~got.found
           THEN /\ runs' = [runs EXCEPT ![r].pc = "done"]
                /\ UNCHANGED campaign_rows
           ELSE /\ campaign_rows' = update_campaign_status(campaign_rows, campaign_id, "running")
                /\ runs' = [runs EXCEPT ![r].pc = "videos",
                                        ![r].target_platforms =
                                            campaign_rows[campaign_id].target_platforms]
        /\ UNCHANGED <<other_vars, clients, engagement_rows, engagement_run, now,
                       calls, db_response>>

\* _generate_campaign_videos: the generated URLs replace the row's video_urls
process_campaign_videos(r, video_urls) ==
    LET run == runs[r]
        campaign_id == run.campaign_id
    IN  /\ run.pc = "videos"
        /\ campaign_rows' = IF campaign_rows[campaign_id].stored
                            THEN [campaign_rows EXCEPT ![campaign_id].video_urls = video_urls,
                                                       ![campaign_id].updated_at = now]
                            ELSE campaign_rows
        /\ runs' = [runs EXCEPT ![r].pc = "posts", ![r].video_urls = video_urls]
        /\ UNCHANGED <<other_vars, clients, engagement_rows, engagement_run, now,
                       calls, db_response>>

\* _create_social_posts and the end of process_campaign.  Without videos
\* nothing is posted or written.  Otherwise one schedule_post per target
\* platform, then "db_campaign.posts = [post.dict() for post in posts]" and
\* commit: the list is assigned, not extended.  Each post.dict() holds the
\* datetime scheduled_time; serializable tells whether the engine's JSON
\* serializer accepts it, and the commit raises when it does not, which the
\* except branch of process_campaign turns into FAILED.
process_campaign_posts(r, draws, serializable) ==
    LET run == runs[r]
        campaign_id == run.campaign_id
        results == [i \in DOMAIN run.target_platforms |->
                       schedule_post(run.target_platforms[i], draws[i])]
        posts == [i \in DOMAIN results |-> results[i].post]
        called == { run.target_platforms[i] :
                       i \in { j \in DOMAIN results : results[j].called } }
        written == IF campaign_rows[campaign_id].stored
                   THEN [campaign_rows EXCEPT ![campaign_id].posts = posts,
                                              ![campaign_id].updated_at = now]
                   ELSE campaign_rows
    IN  /\ run.pc = "posts"
        /\ IF run.video_urls = <<>>
           THEN /\ campaign_rows' = update_campaign_status(campaign_rows, campaign_id, "completed")
                /\ runs' = [runs EXCEPT ![r].pc = "done"]
                /\ UNCHANGED calls
           ELSE /\ calls' = [calls EXCEPT !.client = @ \cup called]
                /\ runs' = [runs EXCEPT ![r].pc = "done"]
                /\ campaign_rows' =
                      IF posts # <<>> /\ ~serializable
                      THEN update_campaign_status(campaign_rows, campaign_id, "failed")
                      ELSE update_campaign_status(written, campaign_id, "completed")
        /\ UNCHANGED <<other_vars, clients, engagement_rows, engagement_run, now,
                       db_response>>

----------------------------------------------------------------------------
(* Persisted variant: the periodic workers and the clock *)

ArchiveAfterDays == 30

\* cleanup_worker.archive_old_campaigns: completed and failed rows not
\* updated for more than 30 days get the status "archived"; updated_at has
\* onupdate=datetime.utcnow
old_campaigns_any_status(rows, time) ==
    { c \in RowIds : rows[c].stored /\ rows[c].updated_at < time - ArchiveAfterDays }

\* filter(status.in_(["completed", "failed"]), updated_at < archive_date)
old_campaigns(rows, time) ==
    { c \in RowIds : /\ rows[c].stored
                     /\ rows[c].status \in {"completed", "failed"}
                     /\ rows[c].updated_at < time - ArchiveAfterDays }

archive_old_campaigns ==
    LET old == old_campaigns(campaign_rows, now)
    IN  /\ old # {}
        /\ campaign_rows' = [c \in RowIds |->
                                IF c \in old
                                THEN [campaign_rows[c] EXCEPT !.status = "archived",
                                                              !.updated_at = now]
                                ELSE campaign_rows[c]]
        /\ UNCHANGED <<other_vars, clients, runs, engagement_rows, engagement_run, now,
                       calls, db_response>>

\* Time passes
tick ==
    /\ now < MaxNow * ClockStep
    /\ now' = now + ClockStep
    /\ UNCHANGED <<other_vars, clients, campaign_rows, runs, engagement_rows,
                   engagement_run, calls, db_response>>

\* A row of table engagement_tasks (database.EngagementTaskDB)
EngagementTaskDB(stored, task_type, scheduled_time, executed, result) ==
    [stored |-> stored, task_type |-> task_type, scheduled_time |-> scheduled_time,
     executed |-> executed, result |-> result]

\* Column result before anything is recorded in it
NoResult == [success |-> FALSE, error |-> Null]

NoEngagementTask == EngagementTaskDB(FALSE, Null, 0, FALSE, NoResult)

EngagementTypes == {"like", "follow"}

\* Rows waiting in the table: not executed, due now or later
WaitingEngagementTasks ==
    { EngagementTaskDB(TRUE, type, time, FALSE, NoResult) :
         type \in EngagementTypes, time \in {0, ClockStep} }

\* Column platform is a String: the value read back from a row is a plain
\* str, which has no attribute value
PlatformHasValue == FALSE

\* SocialPosterService.engage_with_content: never raises.  _auto_reply,
\* _auto_like and _auto_share build their answer from platform.value, and the
\* AttributeError of a platform without it is caught and returned
engage_with_content(has_value, engagement_type) ==
    IF engagement_type \in {"reply", "like", "share"}
    THEN IF has_value
         THEN [success |-> TRUE, error |-> Null]
         ELSE [success |-> FALSE, error |-> "AttributeError"]
    ELSE [success |-> FALSE, error |-> "Unknown engagement type"]

task_executed_on_success(result) == result.success

\* task.executed = True, whatever the result says
task_executed(result) == TRUE

BatchLimit == 10

pending_tasks_any(rows, time) ==
    { i \in EngagementIds : rows[i].stored /\ rows[i].scheduled_time <= time }

\* filter(executed == False, scheduled_time <= utcnow())
pending_tasks(rows, time) ==
    { i \in EngagementIds : /\ rows[i].stored
                            /\ rows[i].executed = FALSE
                            /\ rows[i].scheduled_time <= time }

\* .limit(10).all(): no ORDER BY, any rows of the filter up to the limit
Batches(due) ==
    { b \in SUBSET due :
         Cardinality(b) = IF Cardinality(due) < BatchLimit
                          THEN Cardinality(due) ELSE BatchLimit }

\* imported: whether the worker process has loaded the module of the task.
\* process_engagement_queue is a plain "def" whose body uses "await", which
\* the compiler rejects ('await' outside async function): a worker that
\* cannot import the module runs nothing of it
NoEngagementRun ==
    [pc |-> "idle", batch |-> {}, selected |-> {}, started |-> 0, imported |-> TRUE]

\* process_engagement_queue, the query: one run at a time, as the beat
\* schedule starts them
process_engagement_queue_query(batch) ==
    /\ engagement_run.imported
    /\ engagement_run.pc = "idle"
    /\ batch \in Batches(pending_tasks(engagement_rows, now))
    /\ batch # {} => engagement_run.started < MaxRuns
    /\ engagement_run' = [engagement_run EXCEPT
                             !.pc = "running", !.batch = batch, !.selected = batch,
                             !.started = IF batch = {} THEN @ ELSE @ + 1]
    /\ UNCHANGED <<other_vars, clients, campaign_rows, runs, engagement_rows, now,
                   calls, db_response>>

\* process_engagement_queue, one pass of the loop: engage_with_content, then
\* executed = True, result, commit
process_engagement_queue_task ==
    LET task == Min(engagement_run.batch)
        result == engage_with_content(PlatformHasValue, engagement_rows[task].task_type)
    IN  /\ engagement_run.pc = "running"
        /\ engagement_run.batch # {}
        /\ calls' = [calls EXCEPT !.engage[task] = @ + 1]
        /\ engagement_rows' = [engagement_rows EXCEPT
                                  ![task].executed = task_executed(result),
                                  ![task].result = result]
        /\ engagement_run' = [engagement_run EXCEPT !.batch = @ \ {task}]
        /\ UNCHANGED <<other_vars, clients, campaign_rows, runs, now, db_response>>

\* process_engagement_queue, after the loop: db.close()
process_engagement_queue_end ==
    /\ engagement_run.pc = "running"
    /\ engagement_run.batch = {}
    /\ engagement_run' = [engagement_run EXCEPT !.pc = "idle"]
    /\ UNCHANGED <<other_vars, clients, campaign_rows, runs, engagement_rows, now,
                   calls, db_response>>

----------------------------------------------------------------------------
(* Persisted variant: table video_tasks and its two writers, the           *)
(* background job of VideoGeneratorService.generate_video_async and the    *)
(* Celery task video_worker.generate_video_task                            *)

VideoTaskIds == 1..MaxVideoTasks

\* A row of table video_tasks (database.VideoTaskDB)
VideoTaskDB(stored, status, style, video_url, error_message, completed_at) ==
    [stored |-> stored, status |-> status, style |-> style, video_url |-> video_url,
     error_message |-> error_message, completed_at |-> completed_at]

NoVideoTask == VideoTaskDB(FALSE, Null, Null, Null, Null, Null)

\* The rows, the position of each row's _generate_video_background and the
\* position of a generate_video_task sent for the row's id
NoVideoTasks ==
    [row |-> [v \in VideoTaskIds |-> NoVideoTask],
     background |-> [v \in VideoTaskIds |-> "none"],
     worker |-> [v \in VideoTaskIds |-> "none"]]

\* The style parameter of POST /video/generate: a member of VideoStyle or not
Styles == {"anime", "unknown"}

\* VideoGeneratorService._update_task_status
update_task_status(rows, task_id, status, video_url, error) ==
    IF rows[task_id].stored
    THEN [rows EXCEPT ![task_id] =
             [@ EXCEPT !.status = status,
                       !.video_url = IF video_url # Null THEN video_url ELSE @,
                       !.error_message = IF error # Null THEN error ELSE @,
                       !.completed_at = IF status \in {"completed", "failed"}
                                        THEN "utcnow" ELSE @]]
    ELSE rows

\* generate_video_async: the row is stored as pending and the background job
\* is created; uuid.uuid4() is an id nothing has used
generate_video_async(style) ==
    LET free == { v \in VideoTaskIds : /\ ~video_tasks.row[v].stored
                                       /\ video_tasks.worker[v] = "none" }
        task_id == Min(free)
    IN  /\ free # {}
        /\ video_tasks' = [video_tasks EXCEPT
              !.row[task_id] = VideoTaskDB(TRUE, "pending", style, Null, Null, Null),
              !.background[task_id] = "queued"]
        /\ UNCHANGED <<in_memory_vars, db_vars>>

\* _generate_video_background up to generate_video: status processing
generate_video_background_begin(task_id) ==
    /\ video_tasks.background[task_id] = "queued"
    /\ video_tasks' = [video_tasks EXCEPT
          !.row = update_task_status(@, task_id, "processing", Null, Null),
          !.background[task_id] = "running"]
    /\ UNCHANGED <<in_memory_vars, db_vars>>

\* _generate_video_background from VideoStyle(task.style) on: ValueError for
\* a style outside VideoStyle; generate_video returns a URL or None
generate_video_background_end(task_id, video_url) ==
    LET rows == video_tasks.row
    IN  /\ video_tasks.background[task_id] = "running"
        /\ video_tasks' = [video_tasks EXCEPT
              !.row = IF rows[task_id].style # "anime"
                      THEN update_task_status(rows, task_id, "failed", Null, "ValueError")
                      ELSE IF video_url # Null
                      THEN update_task_status(rows, task_id, "completed", video_url, Null)
                      ELSE update_task_status(rows, task_id, "failed", Null,
                                              "Video generation failed"),
              !.background[task_id] = "done"]
        /\ UNCHANGED <<in_memory_vars, db_vars>>

\* generate_video_task.delay(task_id=...): batch_generate_videos or any other
\* producer sends the task for a task id
generate_video_task_delay(task_id) ==
    /\ video_tasks.worker[task_id] = "none"
    /\ video_tasks' = [video_tasks EXCEPT !.worker[task_id] = "queued"]
    /\ UNCHANGED <<in_memory_vars, db_vars>>

\* generate_video_task, its first write: status processing whatever the row
\* holds
generate_video_task_begin(task_id) ==
    /\ video_tasks.worker[task_id] = "queued"
    /\ video_tasks' = [video_tasks EXCEPT
          !.row = IF @[task_id].stored THEN [@ EXCEPT ![task_id].status = "processing"]
                  ELSE @,
          !.worker[task_id] = "running"]
    /\ UNCHANGED <<in_memory_vars, db_vars>>

\* generate_video_task, the rest: generate_video is a coroutine function
\* called without await, so video_url is a coroutine object, which is true;
\* the commit of status completed with that object as video_url raises, and
\* the except branch writes failed, error_message and completed_at
generate_video_task_end(task_id) ==
    /\ video_tasks.worker[task_id] = "running"
    /\ video_tasks' = [video_tasks EXCEPT
          !.row = IF @[task_id].stored
                  THEN [@ EXCEPT ![task_id].status = "failed",
                                 ![task_id].error_message = "StatementError",
                                 ![task_id].completed_at = "utcnow"]
                  ELSE @,
          !.worker[task_id] = "done"]
    /\ UNCHANGED <<in_memory_vars, db_vars>>

----------------------------------------------------------------------------
(* Initial values of each variant's variables *)

MemInit ==
    /\ settings = {}
    /\ broker_up \in BOOLEAN
    /\ worker_pool = WorkerConcurrency
    /\ campaigns_db = [c \in CampaignIds |-> NoCampaign]
    /\ celery_tasks = [t \in TaskIds |-> NoTask]
    /\ response = NoResponse

MemIdle ==
    /\ settings = {}
    /\ broker_up = TRUE
    /\ worker_pool = WorkerConcurrency
    /\ campaigns_db = [c \in CampaignIds |-> NoCampaign]
    /\ celery_tasks = [t \in TaskIds |-> NoTask]
    /\ response = NoResponse

NoScriptCall == [backend |-> Null, template |-> NoTemplate, raised |-> Null,
                 script |-> NoScript]

DbIdle ==
    /\ clients = {}
    /\ campaign_rows = [c \in RowIds |-> NoRow]
    /\ runs = [r \in RunIds |-> NoRun]
    /\ engagement_rows = [i \in EngagementIds |-> NoEngagementTask]
    /\ engagement_run = NoEngagementRun
    /\ now = 0
    /\ calls = NoCalls
    /\ db_response = NoResponse

----------------------------------------------------------------------------
(* SpecTemplates: the template catalog behind GET /templates/{key} *)

InitTemplates ==
    /\ config_file \in ConfigFiles
    /\ MemIdle
    /\ script_call = NoScriptCall
    /\ publish_call = NoPublishCall
    /\ video_call = NoVideoCall
    /\ video_tasks = NoVideoTasks
    /\ DbIdle

NextTemplates == \E key \in RequestKeys : get_template(key)

SpecTemplates == InitTemplates /\ [][NextTemplates]_vars

----------------------------------------------------------------------------
(* SpecScript: calls of generate_script *)

InitScript ==
    /\ config_file \in {f \in ConfigFiles : f.state = "missing"}
    /\ MemIdle
    /\ script_call \in [backend : Backends, template : ScriptTemplates,
                         raised : {"pending"}, script : {NoScript}]
    /\ publish_call = NoPublishCall
    /\ video_call = NoVideoCall
    /\ video_tasks = NoVideoTasks
    /\ DbIdle

NextScript ==
    \E answer \in BackendResponses, draw \in Draws :
        generate_script_awaited(answer, draw)

SpecScript == InitScript /\ [][NextScript]_vars

----------------------------------------------------------------------------
(* SpecPublish: runs of publish_to_platforms *)

VideoUrls == {Null, "s3_url"}

InitPublish ==
    /\ config_file \in {f \in ConfigFiles : f.state = "missing"}
    /\ settings \in SUBSET {"tiktok", "instagram"}
    /\ broker_up = TRUE
    /\ worker_pool = WorkerConcurrency
    /\ campaigns_db = [c \in CampaignIds |-> NoCampaign]
    /\ celery_tasks = [t \in TaskIds |-> NoTask]
    /\ response = NoResponse
    /\ script_call = NoScriptCall
    /\ publish_call \in { [NoPublishCall EXCEPT !.pc = "queued", !.platforms = p,
                                                !.video_url = v] :
                            p \in PlatformLists, v \in VideoUrls }
    /\ video_call = NoVideoCall
    /\ video_tasks = NoVideoTasks
    /\ DbIdle

NextPublish == publish_to_platforms

SpecPublish == InitPublish /\ [][NextPublish]_vars

----------------------------------------------------------------------------
(* SpecVideo: calls of VideoGenerator.generate_video *)

InitVideo ==
    /\ config_file \in {f \in ConfigFiles : f.state = "missing"}
    /\ MemIdle
    /\ script_call = NoScriptCall
    /\ publish_call = NoPublishCall
    /\ video_call \in { [NoVideoCall EXCEPT !.pc = "called", !.env = env] : env \in RenderEnvs }
    /\ video_tasks = NoVideoTasks
    /\ DbIdle

NextVideo == generate_video_awaited

SpecVideo == InitVideo /\ [][NextVideo]_vars

----------------------------------------------------------------------------
(* SpecMem: the in-memory variant *)

MemConfigFiles ==
    { f \in ConfigFiles : f.state = "missing"
                          \/ f.streams = <<Template("custom", "fun", <<"sale">>)>> }

InitMem ==
    /\ config_file \in MemConfigFiles
    /\ MemInit
    /\ script_call = NoScriptCall
    /\ publish_call = NoPublishCall
    /\ video_call = NoVideoCall
    /\ video_tasks = NoVideoTasks
    /\ DbIdle

NextMem ==
    \/ \E k \in CreateTemplateKeys, p \in CreatePlatforms, s \in Schedules :
          create_campaign(k, p, s)
    \/ \E c \in CampaignIds : get_campaign(c)
    \/ \E c \in CampaignIds : delete_campaign(c)
    \/ \E c \in CampaignIds : regenerate_campaign_content(c)
    \/ \E t \in TaskIds : get_task_status(t)
    \/ \E t \in TaskIds : worker_start(t)
    \/ \E t \in TaskIds : generate_campaign_content(t)
    \/ \E t \in TaskIds : workflow_generate(t)
    \/ \E t \in TaskIds, b \in BOOLEAN : workflow_join(t, b)
    \/ \E t \in TaskIds : reraise(t)

SpecMem == InitMem /\ [][NextMem]_vars

\* The steps the Celery workers take: a running worker goes on taking queued
\* tasks and running the task it holds
WorkerNext ==
    \E t \in TaskIds :
       \/ worker_start(t)
       \/ generate_campaign_content(t)
       \/ workflow_generate(t)
       \/ \E b \in BOOLEAN : workflow_join(t, b)
       \/ reraise(t)

SpecMemFair == SpecMem /\ WF_vars(WorkerNext)

----------------------------------------------------------------------------
(* SpecPool: the in-memory variant's workflows on a pool of worker_pool    *)
(* workers                                                                 *)

PoolWorkerNext ==
    \E t \in TaskIds :
       \/ pool_worker_start(t)
       \/ generate_campaign_content(t)
       \/ workflow_generate(t)
       \/ workflow_join(t, TRUE)
       \/ workflow_get_blocks(t)
       \/ workflow_get_returns(t)
       \/ soft_time_limit(t)
       \/ reraise(t)

NextPool ==
    \/ \E k \in CreateTemplateKeys, p \in CreatePlatforms, s \in Schedules :
          pool_create_campaign(k, p, s)
    \/ \E c \in CampaignIds : get_campaign(c)
    \/ \E t \in TaskIds : get_task_status(t)
    \/ PoolWorkerNext

InitPool ==
    /\ config_file \in MemConfigFiles
    /\ settings = {}
    /\ broker_up \in BOOLEAN
    /\ worker_pool \in 1..WorkerConcurrency
    /\ campaigns_db = [c \in CampaignIds |-> NoCampaign]
    /\ celery_tasks = [t \in TaskIds |-> NoTask]
    /\ response = NoResponse
    /\ script_call = NoScriptCall
    /\ publish_call = NoPublishCall
    /\ video_call = NoVideoCall
    /\ video_tasks = NoVideoTasks
    /\ DbIdle

SpecPool == InitPool /\ [][NextPool]_vars /\ WF_vars(PoolWorkerNext)

----------------------------------------------------------------------------
(* SpecDb: the persisted variant's campaigns *)

InitDb ==
    /\ config_file \in {f \in ConfigFiles : f.state = "missing"}
    /\ MemIdle
    /\ script_call = NoScriptCall
    /\ publish_call = NoPublishCall
    /\ video_call = NoVideoCall
    /\ video_tasks = NoVideoTasks
    /\ clients \in ClientChoices
    /\ campaign_rows = [c \in RowIds |-> NoRow]
    /\ runs = [r \in RunIds |-> NoRun]
    /\ engagement_rows = [i \in EngagementIds |-> NoEngagementTask]
    /\ engagement_run = NoEngagementRun
    /\ now = 0
    /\ calls = NoCalls
    /\ db_response = NoResponse

NextDb ==
    \/ \E p \in TargetPlatforms : CampaignManager_create_campaign(p)
    \/ \E c \in RowIds : main_get_campaign(c)
    \/ \E c \in RowIds : start_campaign(c)
    \/ \E c \in RowIds : stop_campaign(c)
    \/ \E c \in RowIds : get_campaign_analytics(c)
    \/ \E r \in RunIds : process_campaign_begin(r)
    \/ \E r \in RunIds, v \in VideoUrlLists : process_campaign_videos(r, v)
    \/ \E r \in RunIds, b \in BOOLEAN :
          \E d \in [DOMAIN runs[r].target_platforms -> PostDraws] :
             process_campaign_posts(r, d, b)
    \/ archive_old_campaigns
    \/ tick

SpecDb == InitDb /\ [][NextDb]_vars

----------------------------------------------------------------------------
(* SpecStop: the persisted variant's writers of a campaign's status while  *)
(* runs of process_campaign are in flight: create, start, stop and the     *)
(* steps of the runs                                                       *)

NextStop ==
    \/ \E p \in TargetPlatforms : CampaignManager_create_campaign(p)
    \/ \E c \in RowIds : start_campaign(c)
    \/ \E c \in RowIds : stop_campaign(c)
    \/ \E r \in RunIds : process_campaign_begin(r)
    \/ \E r \in RunIds, v \in VideoUrlLists : process_campaign_videos(r, v)
    \/ \E r \in RunIds, b \in BOOLEAN :
          \E d \in [DOMAIN runs[r].target_platforms -> PostDraws] :
             process_campaign_posts(r, d, b)

SpecStop == InitDb /\ [][NextStop]_vars

----------------------------------------------------------------------------
(* SpecArchive: the periodic archive_old_campaigns over rows of any status *)
(* and age                                                                 *)

ArchiveRows ==
    {NoRow} \cup { CampaignDB(TRUE, status, <<"tiktok">>, <<>>, <<>>, 0) :
                      status \in CampaignStatus }

InitArchive ==
    /\ config_file \in {f \in ConfigFiles : f.state = "missing"}
    /\ MemIdle
    /\ script_call = NoScriptCall
    /\ publish_call = NoPublishCall
    /\ video_call = NoVideoCall
    /\ video_tasks = NoVideoTasks
    /\ clients = {}
    /\ campaign_rows \in [RowIds -> ArchiveRows]
    /\ runs = [r \in RunIds |-> NoRun]
    /\ engagement_rows = [i \in EngagementIds |-> NoEngagementTask]
    /\ engagement_run = NoEngagementRun
    /\ now = 0
    /\ calls = NoCalls
    /\ db_response = NoResponse

NextArchive ==
    \/ archive_old_campaigns
    \/ \E c \in RowIds : stop_campaign(c)
    \/ tick

SpecArchive == InitArchive /\ [][NextArchive]_vars

----------------------------------------------------------------------------
(* SpecVideoTasks: the persisted variant's video generation tasks *)

InitVideoTasks ==
    /\ config_file \in {f \in ConfigFiles : f.state = "missing"}
    /\ MemIdle
    /\ script_call = NoScriptCall
    /\ publish_call = NoPublishCall
    /\ video_call = NoVideoCall
    /\ video_tasks = NoVideoTasks
    /\ DbIdle

NextVideoTasks ==
    \/ \E style \in Styles : generate_video_async(style)
    \/ \E v \in VideoTaskIds : generate_video_background_begin(v)
    \/ \E v \in VideoTaskIds, url \in {Null, "video_url"} :
          generate_video_background_end(v, url)
    \/ \E v \in VideoTaskIds : generate_video_task_delay(v)
    \/ \E v \in VideoTaskIds : generate_video_task_begin(v)
    \/ \E v \in VideoTaskIds : generate_video_task_end(v)

SpecVideoTasks == InitVideoTasks /\ [][NextVideoTasks]_vars

----------------------------------------------------------------------------
(* SpecEngagement: the engagement queue of the persisted variant *)

InitEngagement ==
    /\ config_file \in {f \in ConfigFiles : f.state = "missing"}
    /\ MemIdle
    /\ script_call = NoScriptCall
    /\ publish_call = NoPublishCall
    /\ video_call = NoVideoCall
    /\ video_tasks = NoVideoTasks
    /\ clients = {}
    /\ campaign_rows = [c \in RowIds |-> NoRow]
    /\ runs = [r \in RunIds |-> NoRun]
    /\ engagement_rows \in [EngagementIds -> WaitingEngagementTasks \cup {NoEngagementTask}]
    /\ engagement_run \in { [NoEngagementRun EXCEPT !.imported = b] : b \in BOOLEAN }
    /\ now = 0
    /\ calls = NoCalls
    /\ db_response = NoResponse

NextEngagement ==
    \/ \E b \in SUBSET EngagementIds : process_engagement_queue_query(b)
    \/ process_engagement_queue_task
    \/ process_engagement_queue_end
    \/ tick

SpecEngagement == InitEngagement /\ [][NextEngagement]_vars

\* The beat schedule starts a run of the queue processor every ten minutes,
\* and a run that has started goes on to its end
EngagementWorkerNext ==
    \/ \E b \in SUBSET EngagementIds : process_engagement_queue_query(b)
    \/ process_engagement_queue_task
    \/ process_engagement_queue_end

SpecEngagementFair == SpecEngagement /\ WF_vars(EngagementWorkerNext)

----------------------------------------------------------------------------
(* Claims about the in-memory variant *)

InitialStatuses == {"pending", "scheduled", "processing"}

\* C1: every POST /campaigns that stores a new campaign stores it with a
\* status among pending, scheduled and processing, and a successful response
\* returns that same status; never completed or failed.
C1_InitialStatus ==
    [][\A c \in CampaignIds :
          (campaigns_db[c].stored = "never" /\ campaigns_db'[c].stored = "stored")
          => /\ campaigns_db'[c].status \in InitialStatuses
             /\ response'.endpoint = "create_campaign"
             /\ response'.code = 200
                => /\ response'.campaign_id = c
                   /\ response'.status = campaigns_db'[c].status]_vars

C1_Witness ==
    /\ response.endpoint = "create_campaign"
    /\ response.code = 200
    /\ response.status = "scheduled"
    /\ campaigns_db[response.campaign_id].status = "scheduled"

WorkflowTasksOf(c) ==
    { t \in TaskIds : /\ celery_tasks[t].name = "execute_campaign_workflow"
                      /\ celery_tasks[t].campaign_id = c }

\* C2 (as the code's final result): once the workflow task of a campaign
\* created without a schedule has ended, GET /tasks/{taskId} reports status
\* completed with a result that holds a video_url and a script with its five
\* fields populated.
C2_WorkflowCompletes ==
    \A t \in TaskIds :
        (celery_tasks[t].name = "execute_campaign_workflow" /\ celery_tasks[t].pc = "done")
        => /\ TaskStatusResponse(t).status = "completed"
           /\ TaskStatusResponse(t).result.video_url # Null
           /\ TaskStatusResponse(t).result.script_fields = 5

\* C10: a successful POST /campaigns with a schedule stores the campaign as
\* scheduled, returns no task id and enqueues no workflow; without a schedule
\* (None or the empty string) it enqueues exactly one execute_campaign_workflow
\* task for the new campaign id, returns that task's id, and stores the
\* campaign as processing.
C10_ScheduleOrEnqueue ==
    (response.endpoint = "create_campaign" /\ response.code = 200)
    => LET c == response.campaign_id
       IN  IF campaigns_db[c].schedule \notin {Null, ""}
           THEN /\ campaigns_db[c].status = "scheduled"
                /\ response.status = "scheduled"
                /\ response.task_id = NoId
                /\ WorkflowTasksOf(c) = {}
           ELSE /\ campaigns_db[c].status = "processing"
                /\ response.status = "processing"
                /\ WorkflowTasksOf(c) = {response.task_id}

C10_Witness ==
    /\ response.endpoint = "create_campaign"
    /\ response.code = 200
    /\ campaigns_db[response.campaign_id].schedule = ""
    /\ WorkflowTasksOf(response.campaign_id) = {response.task_id}
    /\ celery_tasks[response.task_id].pc = "queued"

\* C11: GET /tasks/{task_id} with an id that was never issued to a task
\* answers HTTP 404 and reports no status for it.
C11_UnknownTaskNotFound ==
    (/\ response.endpoint = "get_task_status"
     /\ celery_tasks[response.task_id].pc = "unused")
    => /\ response.code = 404
       /\ response.status = Null

\* C12: once the workflow task of a stored campaign has finished, the
\* campaign's stored status eventually is completed or failed (or the
\* campaign has been deleted): it does not stay processing forever.
C12_CampaignReachesTerminal ==
    \A c \in CampaignIds :
       (Stored(c) /\ \E t \in WorkflowTasksOf(c) : celery_tasks[t].pc = "done")
       ~> (~Stored(c) \/ campaigns_db[c].status \in {"completed", "failed"})

\* C14: when the workflow of a stored campaign has raised, the campaign's
\* status is failed and its error_message holds the cause; error_message is
\* empty in every other status.
C14_FailedHoldsCause ==
    \A c \in CampaignIds :
       Stored(c)
       => /\ (\E t \in WorkflowTasksOf(c) :
                 celery_tasks[t].pc = "done" /\ celery_tasks[t].state = "FAILURE")
             => /\ campaigns_db[c].status = "failed"
                /\ campaigns_db[c].error_message # Null
          /\ campaigns_db[c].status # "failed" => campaigns_db[c].error_message = Null

C18_StagesAwaitResults ==
    \A t \in TaskIds :
       (celery_tasks[t].name = "generate_campaign_content" /\ celery_tasks[t].pc = "upload")
       => /\ HasGet(generate_script_call)
          /\ HasGet(generate_video_call(generate_script_call))

\* C19: publish_to_platforms does not fail when some platforms do not
\* succeed: a finished run has raised nothing, holds one result per requested
\* platform, and successful_publishes is the number of those results whose
\* status is success, between 0 and total_platforms.
C19_PublishReportsPerPlatform ==
    publish_call.pc = "done"
    => /\ publish_call.raised = Null
       /\ publish_call.state = "SUCCESS"
       /\ DOMAIN publish_call.platform_results = Range(publish_call.platforms)
       /\ publish_call.successful_publishes =
             Cardinality({p \in DOMAIN publish_call.platform_results :
                             publish_call.platform_results[p].status = "success"})
       /\ publish_call.successful_publishes >= 0
       /\ publish_call.successful_publishes <= publish_call.total_platforms

C24_FailedOnlyWhenFailed ==
    (response.endpoint = "get_task_status" /\ response.status = "failed")
    => celery_tasks[response.task_id].state = "FAILURE"

\* C25: on a pool of worker_pool workers shared by all tasks, every
\* execute_campaign_workflow task that was queued eventually reaches SUCCESS
\* or FAILURE, also when every worker is blocked in a workflow's get().
C25_WorkflowsEnd ==
    \A t \in TaskIds :
       (celery_tasks[t].name = "execute_campaign_workflow" /\ celery_tasks[t].pc # "unused")
       ~> (celery_tasks[t].state \in {"SUCCESS", "FAILURE"})

C25_Witness ==
    /\ Cardinality(Busy) = worker_pool
    /\ \A t \in Busy : celery_tasks[t].pc = "waiting"
    /\ \E t \in TaskIds : celery_tasks[t].pc = "queued"

\* C27: a POST /campaigns answered with an error leaves the campaign store
\* as it was and enqueues no workflow.
C27_RejectedCreateStoresNothing ==
    [][(response'.endpoint = "create_campaign" /\ response'.code # 200)
       => /\ campaigns_db' = campaigns_db
          /\ \A t \in TaskIds :
                (celery_tasks'[t].name = "execute_campaign_workflow")
                => celery_tasks[t].name = "execute_campaign_workflow"]_vars

----------------------------------------------------------------------------
(* Claims about the persisted variant *)

\* C3: no campaign goes from completed or failed back to an earlier state
\* (draft, scheduled, running or paused), whatever create, start, stop,
\* workflow and archival steps are taken.
C3_NoReturnFromTerminal ==
    [][\A c \in RowIds :
          campaign_rows[c].status \in {"completed", "failed"}
          => campaign_rows'[c].status \in {"completed", "failed", "archived"}]_vars

C5_UnconfiguredSkipped ==
    \A c \in RowIds :
       \A i \in DOMAIN campaign_rows[c].posts :
          LET post == campaign_rows[c].posts[i]
          IN  post.platform \notin clients
              => /\ post.post_id = Null
                 /\ post.posted = FALSE
                 /\ post.platform \notin calls.client

\* C6: an engagement task that has executed = true keeps it, is in no batch
\* a run of the queue processor selects afterwards and is not executed again,
\* so engage_with_content is called at most once for each task.
C6_ExecutedOnce ==
    [][\A i \in EngagementIds :
          /\ engagement_rows[i].executed
             => /\ engagement_rows'[i].executed
                /\ i \notin engagement_run'.batch
                /\ calls'.engage[i] = calls.engage[i]
          /\ calls'.engage[i] <= 1]_vars

C6_Witness ==
    \E i, j \in EngagementIds :
       /\ engagement_rows[i].executed
       /\ calls.engage[i] = 1
       /\ engagement_rows[i].scheduled_time <= now
       /\ engagement_run.started = 2
       /\ engagement_run.pc = "running"
       /\ j \in engagement_run.batch

\* C20: every task a run of the queue processor selected ends the run with
\* executed = true and a recorded result, whether its action succeeded or
\* failed; a task still to be processed was never attempted before, so a
\* failed task is not attempted again; and the run ends only once the whole
\* batch was processed, so one failure does not stop the other tasks.
C20_SelectedEndExecuted ==
    /\ \A i \in engagement_run.selected \ engagement_run.batch :
          /\ engagement_rows[i].executed
          /\ engagement_rows[i].result # NoResult
          /\ calls.engage[i] = 1
    /\ \A i \in engagement_run.batch :
          /\ engagement_rows[i].result = NoResult
          /\ calls.engage[i] = 0
    /\ engagement_run.pc = "idle" => engagement_run.batch = {}

C20_Witness ==
    \E i \in EngagementIds :
       /\ i \notin engagement_run.selected
       /\ engagement_rows[i].executed
       /\ ~engagement_rows[i].result.success
       /\ engagement_rows[i].result # NoResult
       /\ engagement_run.started = 2
       /\ engagement_run.pc = "idle"
       /\ Cardinality(engagement_run.selected) = 2
       /\ \A j \in engagement_run.selected :
             /\ engagement_rows[j].executed
             /\ ~engagement_rows[j].result.success

\* C21: whenever a run of process_campaign has published a post, engagement
\* tasks for that post have been created by the time the run ends.
C21_EngagementAfterPublish ==
    \A r \in RunIds :
       (/\ runs[r].pc = "done"
        /\ \E i \in DOMAIN campaign_rows[runs[r].campaign_id].posts :
              campaign_rows[runs[r].campaign_id].posts[i].posted)
       => \E e \in EngagementIds : engagement_rows[e].stored

\* C22: a step that archives a campaign changes to archived exactly the rows
\* whose status is completed or failed and whose last update is more than
\* thirty days old; it deletes no row, and every other row keeps its status
\* and all its other fields.
C22_ArchivesExactlyOld ==
    [][(\E c \in RowIds : /\ campaign_rows'[c].status = "archived"
                          /\ campaign_rows[c].status # "archived")
       => \A c \in RowIds :
             /\ campaign_rows'[c].stored = campaign_rows[c].stored
             /\ IF /\ campaign_rows[c].stored
                   /\ campaign_rows[c].status \in {"completed", "failed"}
                   /\ campaign_rows[c].updated_at + ArchiveAfterDays < now
                THEN /\ campaign_rows'[c].status = "archived"
                     /\ campaign_rows'[c].target_platforms = campaign_rows[c].target_platforms
                     /\ campaign_rows'[c].posts = campaign_rows[c].posts
                     /\ campaign_rows'[c].video_urls = campaign_rows[c].video_urls
                ELSE campaign_rows'[c] = campaign_rows[c]]_vars

C22_Witness ==
    \E c, d \in RowIds :
       /\ campaign_rows[c].status = "archived"
       /\ campaign_rows[d].stored
       /\ campaign_rows[d].status = "running"
       /\ campaign_rows[d].updated_at + ArchiveAfterDays < now

\* C26: at most one run of process_campaign is in flight for a campaign at
\* any time.
C26_OneRunPerCampaign ==
    \A c \in RowIds :
       Cardinality({ r \in RunIds : /\ runs[r].campaign_id = c
                                    /\ runs[r].pc \notin {"unused", "done"} }) <= 1

\* C28: every status stored for a campaign of the persisted variant is a
\* member of CampaignStatus, so get_campaign can load every stored campaign.
C28_StoredStatusIsMember ==
    \A c \in RowIds :
       campaign_rows[c].stored
       => /\ campaign_rows[c].status \in CampaignStatus
          /\ CampaignManager_get_campaign(c).raised = Null

\* C29: under repeated runs of the engagement queue processor every
\* engagement task that is due and not executed is eventually executed.
C29_DueTasksEventuallyExecuted ==
    \A i \in EngagementIds :
       (/\ engagement_rows[i].stored
        /\ ~engagement_rows[i].executed
        /\ engagement_rows[i].scheduled_time <= now)
       ~> engagement_rows[i].executed

\* C30: the stored status of a video generation task only moves from pending
\* to processing and from processing to completed or failed; a completed or
\* failed row never changes again; completed_at is set exactly when the
\* status is completed or failed, and video_url only when it is completed.
C30_VideoTaskStatusOrder ==
    [][\A v \in VideoTaskIds :
          LET old == video_tasks.row[v]
              new == video_tasks'.row[v]
          IN  /\ old.status # new.status
                 => <<old.status, new.status>> \in
                       { <<Null, "pending">>, <<"pending", "processing">>,
                         <<"processing", "completed">>, <<"processing", "failed">> }
              /\ old.status \in {"completed", "failed"} => new = old
              /\ new.completed_at # Null <=> new.status \in {"completed", "failed"}
              /\ new.video_url # Null => new.status = "completed"]_vars

CampaignEndpoints ==
    {"get_campaign", "start_campaign", "stop_campaign", "get_campaign_analytics"}

\* C9: an endpoint addressed to a campaign id that names no stored campaign
\* answers HTTP 404 "Campaign not found", stores nothing and enqueues no work.
C9_UnknownIdNotFound ==
    (/\ db_response.endpoint \in CampaignEndpoints
     /\ ~campaign_rows[db_response.campaign_id].stored)
    => /\ db_response.code = 404
       /\ db_response.detail = "Campaign not found"
       /\ \A r \in RunIds : runs[r].campaign_id # db_response.campaign_id

\* C13: a run of process_campaign that writes completed has produced at
\* least one video: a run whose video generation produced nothing never
\* marks the campaign completed.
C13_CompletedOnlyWithVideo ==
    [][\A r \in RunIds :
          (/\ runs[r].pc = "posts"
           /\ runs'[r].pc = "done"
           /\ campaign_rows'[runs[r].campaign_id].status = "completed")
          => runs[r].video_urls # <<>>]_vars

\* C15: a campaign enters paused only from running: a stop request on a
\* campaign in any other status does not put it in paused.
C15_PausedOnlyFromRunning ==
    [][\A c \in RowIds :
          (campaign_rows'[c].status = "paused" /\ campaign_rows[c].status # "paused")
          => campaign_rows[c].status = "running"]_vars

\* C16: a stop request does not abort a run of process_campaign (the step
\* that writes paused changes no run), and a run that finishes afterwards
\* writes completed or failed over whatever status it finds, paused included.
C16_StopDoesNotAbort ==
    [][/\ \A c \in RowIds :
             (campaign_rows'[c].status = "paused" /\ campaign_rows[c].status # "paused")
             => runs' = runs
       /\ \A r \in RunIds :
             (runs[r].pc = "posts" /\ runs'[r].pc = "done")
             => campaign_rows'[runs[r].campaign_id].status \in {"completed", "failed"}]_vars

\* The last request was a stop of a stored campaign, and a run that was in
\* flight then has since replaced paused
C16_Witness ==
    /\ db_response.endpoint = "stop_campaign"
    /\ campaign_rows[db_response.campaign_id].stored
    /\ campaign_rows[db_response.campaign_id].status = "completed"
    /\ \A r \in RunIds : runs[r].pc \in {"unused", "done"}

\* POST /campaigns/{id}/start answered 200 leaves the row as it is and adds
\* one queued run of process_campaign for the campaign
StartEnqueuesOneRun ==
    [][(/\ db_response' # db_response
        /\ db_response'.endpoint = "start_campaign"
        /\ db_response'.code = 200)
       => /\ campaign_rows' = campaign_rows
          /\ \E r \in RunIds :
                /\ runs[r].pc = "unused"
                /\ runs'[r].pc = "queued"
                /\ runs'[r].campaign_id = db_response'.campaign_id
                /\ \A q \in RunIds \ {r} : runs'[q] = runs[q]]_vars

----------------------------------------------------------------------------
(* Claims about the template catalog and the script composer *)

FallbackKeys == {"mnp", "anime", "tech"}

\* The keys of the template set in use: the file's own streams when it loads,
\* the built-in set when it is missing or malformed
KeysInUse ==
    IF config_file.state = "loaded"
    THEN { config_file.streams[i].key : i \in DOMAIN config_file.streams }
    ELSE FallbackKeys

\* C7 (as claimed): GET /templates/{key} answers 404 only for keys absent from
\* the set in use and never for a key of the fallback set, whatever the state
\* of the configuration file.
C7_FallbackKeysAlwaysFound ==
    response.endpoint = "get_template"
    => /\ response.code = 404 => (response.detail \notin KeysInUse
                                   /\ response.detail \notin FallbackKeys)
       /\ response.code = 200 => response.template.key \in KeysInUse

\* C7 (amended): GET /templates/{key} answers 404 naming the key exactly for
\* the keys absent from the set in use, and 200 with the template of that key
\* otherwise; the set in use is the fallback set only when the file is missing
\* or malformed.
C7_NotFoundIffAbsent ==
    response.endpoint = "get_template"
    => /\ response.code \in {200, 404}
       /\ response.code = 404 => response.detail \notin KeysInUse
       /\ response.code = 200 => response.template.key \in KeysInUse

C7_Witness ==
    /\ config_file.state = "malformed"
    /\ response.endpoint = "get_template"
    /\ response.code = 200
    /\ response.template.key = "tech"

\* C8: whenever no backend is configured or the backend call fails,
\* generate_script returns without raising a script with a hook, exactly three
\* bullets, a twist, a cta, at least one hashtag, each "#" followed by one of
\* the template's keywords, and the template's primary style.
C8_FallbackAlwaysComplete ==
    (script_call.backend \in {"unconfigured", "raises"} /\ script_call.raised # "pending")
    => /\ script_call.raised = Null
       /\ script_call.script.hook # NoText
       /\ Len(script_call.script.bullets) = 3
       /\ script_call.script.twist # NoText
       /\ script_call.script.cta # NoText
       /\ Len(script_call.script.hashtags) >= 1
       /\ \A i \in DOMAIN script_call.script.hashtags :
             \E k \in DOMAIN script_call.template.keywords :
                script_call.script.hashtags[i] = <<"#", script_call.template.keywords[k]>>
       /\ script_call.script.style = script_call.template.style_primary

====
